---- MODULE Spec2Model ----
(***************************************************************************)
(* Model of src/main.py (the Pop notification backend): the token          *)
(* collection, the notification-history collection, the register_token,    *)
(* get_tokens and send_notification handlers, and the push gateway         *)
(* (firebase messaging.send_all) as the environment.                       *)
(*                                                                         *)
(* Handlers run concurrently (Flask serves requests on threads), so a      *)
(* handler is split into one action per access to shared state: each       *)
(* MongoDB operation and each gateway call is one step.  Timestamps        *)
(* (datetime.utcnow()) are left out of the documents: no handler reads     *)
(* them back except the history sort.                                      *)
(***************************************************************************)
EXTENDS Naturals, Sequences, FiniteSets

\* ------------------------------------------------------------- bounds
\* Token values clients register in the concurrent specification.
MaxToken == 2
\* Batches of at most this many messages get every combination of outcomes.
MaxVaried == 2
\* Largest pre-populated token collection of the batching specification.
MaxStored == 1001

\* --------------------------------------------------- program constants
\* range(0, len(all_tokens), 500) and all_tokens[i:i+500]
BatchSize == 500

None == "<None>"

\* Token strings are numbered 1, 2, ...; NoToken is a request whose "token" is
\* missing or the empty string (both falsy in `if not token`).
NoToken == 0
Tokens == 1..MaxToken
TokenInputs == Tokens \cup {NoToken}
Titles == {None, "", "Pop"}
Bodies == {None, "", "Hello"}
Images == {None, "img.png"}
\* concurrent register_token requests
Registrars == {"r1", "r2"}

\* mutant: only a missing field is refused, an empty string passes
FalsyOnlyMissing(x) == x = None

\* Python truthiness of a request field: `not x`
Falsy(x) == x = None \/ x = ""

\* mutant: "UNREGISTERED" is left out of the list of line 138
InvalidCodesWithoutUnregistered == {"INVALID_ARGUMENT", "registration-token-not-registered"}

\* lines 138-142: the codes that mark a token for removal
InvalidCodes == {"UNREGISTERED", "INVALID_ARGUMENT", "registration-token-not-registered"}

\* the exception codes the gateway attaches to a failed send
GatewayCodes ==
    {"UNREGISTERED", "INVALID_ARGUMENT", "registration-token-not-registered",
     "INTERNAL_ERROR"}

\* A SendResponse: success, or a failure whose exception carries a code, or a
\* failure with no exception attached.
Outcomes ==
    {[success |-> TRUE, exception |-> None]}
    \cup {[success |-> FALSE, exception |-> c] : c \in GatewayCodes \cup {None}}

Min(a, b) == IF a <= b THEN a ELSE b
Range(s) == {s[k] : k \in 1..Len(s)}

VARIABLES
    client,                            \* the MongoClient handle, or None
    tokens_collection,                 \* db.tokens: sequence of documents
    notifications_history_collection,  \* db.notifications_history
    reg,                               \* register_token requests in flight
    pc,                                \* send_notification: position
    title, body, image,                \* send_notification: request fields
    all_tokens, i,                     \* send_notification: locals
    invalid_tokens, success_count, failure_count,
    response,                          \* send_notification: HTTP response
    log,                               \* messages the handler wrote to app.log
    gateway                            \* the send_all calls the gateway received

vars == <<client, tokens_collection, notifications_history_collection, reg, pc,
          title, body, image, all_tokens, i, invalid_tokens, success_count,
          failure_count, response, log, gateway>>

storeVars == <<client, tokens_collection, notifications_history_collection>>
sendVars == <<pc, title, body, image, all_tokens, i, invalid_tokens,
              success_count, failure_count, response, log, gateway>>

NoResponse == [status |-> 0]

\* ------------------------------------------------------------ the stores
\* [doc["token"] for doc in tokens_collection.find({}, {"_id": 0, "token": 1})]
ListTokens(coll) == [k \in 1..Len(coll) |-> coll[k].token]

\* update_one({"token": token}, ...): does a document match the filter?
Matches(coll, token) == \E k \in 1..Len(coll) : coll[k].token = token

\* the insert half of an upsert that matched nothing
InsertToken(coll, token) == Append(coll, [token |-> token])

\* delete_many({"token": {"$in": invalid}})
DeleteMany(coll, invalid) ==
    SelectSeq(coll, LAMBDA doc : doc.token \notin Range(invalid))

\* get_tokens: the body of its 200 response
get_tokens ==
    [count |-> Len(ListTokens(tokens_collection)),
     tokens |-> ListTokens(tokens_collection)]

\* ------------------------------------------------------------------ Init
InitSend ==
    /\ pc = "idle"
    /\ title = None /\ body = None /\ image = None
    /\ all_tokens = <<>> /\ i = 0
    /\ invalid_tokens = <<>> /\ success_count = 0 /\ failure_count = 0
    /\ response = NoResponse
    /\ log = {}
    /\ gateway = <<>>

Init ==
    /\ client \in BOOLEAN
    /\ tokens_collection = <<>>
    /\ notifications_history_collection = <<>>
    /\ reg = [r \in Registrars |-> [pc |-> "idle", token |-> NoToken, status |-> 0]]
    /\ InitSend

\* A collection that already holds tokens 1..n (the batching specification).
Stored(n) == [k \in 1..n |-> [token |-> k]]

\* Sizes around the batch boundaries, and a few small ones.
StoredSizes ==
    {n \in 0..MaxStored :
        \/ n <= 3
        \/ n >= BatchSize /\ n % BatchSize <= 1}

InitBatch ==
    /\ client = TRUE
    /\ \E n \in StoredSizes : tokens_collection = Stored(n)
    /\ notifications_history_collection = <<>>
    /\ reg = [r \in Registrars |-> [pc |-> "idle", token |-> NoToken, status |-> 0]]
    /\ InitSend

\* -------------------------------------------------------- register_token
\* The request arrives; update_one's query phase runs.  A matching document is
\* updated in place (its timestamp refreshed); with none, the upsert goes on
\* to insert one.  No unique index is created on "token", so the query and the
\* insert of two concurrent upserts of a new token can interleave.
register_token_update(r) ==
    /\ reg[r].pc = "idle"
    /\ \E token \in TokenInputs :
        IF ~client
        THEN /\ reg' = [reg EXCEPT ![r] = [pc |-> "idle", token |-> token, status |-> 500]]
        ELSE IF token = NoToken
        THEN /\ reg' = [reg EXCEPT ![r] = [pc |-> "idle", token |-> token, status |-> 400]]
        ELSE \/ /\ Matches(tokens_collection, token)
                /\ reg' = [reg EXCEPT ![r] = [pc |-> "idle", token |-> token, status |-> 200]]
             \/ /\ ~Matches(tokens_collection, token)
                /\ reg' = [reg EXCEPT ![r] = [pc |-> "insert", token |-> token, status |-> 0]]
             \/ \* except Exception: the store is unreachable
                /\ reg' = [reg EXCEPT ![r] = [pc |-> "idle", token |-> token, status |-> 500]]
    /\ UNCHANGED <<storeVars, sendVars>>

\* The insert phase of an upsert whose query matched nothing.
register_token_insert(r) ==
    /\ reg[r].pc = "insert"
    /\ \/ /\ tokens_collection' = InsertToken(tokens_collection, reg[r].token)
          /\ reg' = [reg EXCEPT ![r].pc = "idle", ![r].status = 200]
       \/ /\ reg' = [reg EXCEPT ![r].pc = "idle", ![r].status = 500]
          /\ UNCHANGED tokens_collection
    /\ UNCHANGED <<client, notifications_history_collection, sendVars>>

\* ----------------------------------------------------- send_notification
Reply(status, message) == [status |-> status, message |-> message]

\* lines 94-102: the connection check and the validation of title and body
send_notification_validate ==
    /\ pc = "idle"
    /\ \E t \in Titles, b \in Bodies, img \in Images :
        /\ title' = t /\ body' = b /\ image' = img
        /\ IF ~client
           THEN /\ response' = Reply(500, "Database not connected")
                /\ pc' = "done"
           ELSE IF Falsy(t) \/ Falsy(b)
           THEN /\ response' = Reply(400, "Title and body are required")
                /\ pc' = "done"
           ELSE /\ pc' = "find"
                /\ UNCHANGED response
    /\ UNCHANGED <<storeVars, reg, all_tokens, i, invalid_tokens, success_count,
                   failure_count, log, gateway>>

\* mutant: the empty list is not short-circuited
NoTokensNever(tokens) == FALSE

\* line 110: `if not all_tokens`
NoTokens(tokens) == tokens = <<>>

\* lines 104-111: read every token; 404 when there is none
send_notification_find ==
    /\ pc = "find"
    /\ \/ /\ all_tokens' = ListTokens(tokens_collection)
          /\ IF NoTokens(all_tokens')
             THEN /\ response' = Reply(404, "No tokens registered")
                  /\ pc' = "done"
             ELSE /\ pc' = "send"
                  /\ UNCHANGED response
          /\ UNCHANGED log
       \/ /\ log' = log \cup {"Error retrieving all tokens for sending notification"}
          /\ response' = Reply(500, "Error retrieving tokens for notification")
          /\ pc' = "done"
          /\ UNCHANGED all_tokens
    /\ UNCHANGED <<storeVars, reg, title, body, image, i, invalid_tokens,
                   success_count, failure_count, gateway>>

\* ---------------------------------------------------------- the gateway
\* What send_all may answer for n messages: one SendResponse per message, in
\* order.  Short batches get every combination of outcomes; in a longer one
\* every message gets the same outcome.
Responses(n) ==
    IF n <= MaxVaried
    THEN [1..n -> Outcomes]
    ELSE {[k \in 1..n |-> t] : t \in Outcomes}

\* messaging.send_all(messages): a BatchResponse, or an exception
send_all(messages) ==
    {[raised |-> TRUE, responses |-> <<>>]}
    \cup {[raised |-> FALSE, responses |-> rs] : rs \in Responses(Len(messages))}

\* A gateway that breaks its contract: it may answer with fewer responses than
\* it was sent messages.
send_all_truncating(messages) ==
    send_all(messages)
    \cup {[raised |-> FALSE, responses |-> SubSeq(rs, 1, n)] :
            rs \in Responses(Len(messages)), n \in 0..(Len(messages) - 1)}

\* mutant: any failure that carries an exception marks its token invalid
IsInvalidAnyException(resp) == resp.exception # None

\* line 138: response.exception and response.exception.code in [...]
IsInvalid(resp) ==
    /\ resp.exception # None
    /\ resp.exception \in InvalidCodes

\* lines 133-143, the walk over enumerate(batch_response.responses): the number
\* of successes, the number of failures, and the tokens to remove, in order
Successes(responses) ==
    Cardinality({k \in 1..Len(responses) : responses[k].success})

\* mutant: a failure is counted only when it carries an exception
FailuresOnlyWithException(responses) ==
    Cardinality({k \in 1..Len(responses) :
                    ~responses[k].success /\ responses[k].exception # None})

Failures(responses) ==
    Cardinality({k \in 1..Len(responses) : ~responses[k].success})

InvalidIndexes(responses) ==
    SelectSeq([k \in 1..Len(responses) |-> k],
              LAMBDA k : ~responses[k].success /\ IsInvalid(responses[k]))

\* batch_tokens[idx] for each idx kept
TokensAt(batch_tokens, idx) == [j \in 1..Len(idx) |-> batch_tokens[idx[j]]]

InvalidOf(batch_tokens, responses) ==
    TokensAt(batch_tokens, InvalidIndexes(responses))

\* mutant: the slice runs one element too far, all_tokens[i:i+501]
BatchTokensOneTooFar(tokens, offset) ==
    SubSeq(tokens, offset + 1, Min(offset + BatchSize + 1, Len(tokens)))

\* all_tokens[i:i+500]
BatchTokens(tokens, offset) ==
    SubSeq(tokens, offset + 1, Min(offset + BatchSize, Len(tokens)))

\* mutant: a batch that raised counts as one failure
BatchFailedOnce(batch_tokens) == 1

\* line 146: failure_count += len(batch_tokens)
BatchFailed(batch_tokens) == Len(batch_tokens)

\* where the handler goes once range(0, len(all_tokens), 500) is exhausted
AfterBatches(invalid) == IF invalid # <<>> THEN "delete" ELSE "history"

\* lines 118-146: one iteration of the batch loop, given what send_all did
BatchIteration(batch_tokens, result) ==
    /\ pc = "send"
    /\ gateway' = Append(gateway, [messages |-> batch_tokens,
                                   raised |-> result.raised,
                                   responses |-> result.responses])
    /\ IF result.raised
       THEN /\ log' = log \cup {"Error sending batch"}
            /\ failure_count' = failure_count + BatchFailed(batch_tokens)
            /\ UNCHANGED <<success_count, invalid_tokens>>
       ELSE /\ success_count' = success_count + Successes(result.responses)
            /\ failure_count' = failure_count + Failures(result.responses)
            /\ invalid_tokens' =
                  invalid_tokens \o InvalidOf(batch_tokens, result.responses)
            /\ UNCHANGED log
    /\ i' = i + BatchSize
    /\ pc' = IF i' < Len(all_tokens) THEN "send" ELSE AfterBatches(invalid_tokens')
    /\ UNCHANGED <<storeVars, reg, title, body, image, all_tokens, response>>

send_notification_batch ==
    /\ pc = "send"
    /\ \E batch_tokens \in {BatchTokens(all_tokens, i)} :
         \E result \in send_all(batch_tokens) :
            BatchIteration(batch_tokens, result)

\* the same iteration against the gateway that may drop responses
send_notification_batch_truncated ==
    /\ pc = "send"
    /\ \E batch_tokens \in {BatchTokens(all_tokens, i)} :
         \E result \in send_all_truncating(batch_tokens) :
            BatchIteration(batch_tokens, result)

\* lines 148-153: remove the invalid tokens, best effort
send_notification_delete ==
    /\ pc = "delete"
    /\ \/ /\ tokens_collection' = DeleteMany(tokens_collection, invalid_tokens)
          /\ log' = log \cup {"Removed invalid tokens"}
       \/ /\ log' = log \cup {"Error removing invalid tokens"}
          /\ UNCHANGED tokens_collection
    /\ pc' = "history"
    /\ UNCHANGED <<client, notifications_history_collection, reg, title, body,
                   image, all_tokens, i, invalid_tokens, success_count,
                   failure_count, response, gateway>>

\* lines 157-166: the document written to the history
HistoryRecord ==
    [title |-> title, body |-> body, image |-> image,
     total_tokens |-> Len(all_tokens),
     success_count |-> success_count,
     failure_count |-> failure_count,
     invalid_tokens_removed |-> Len(invalid_tokens)]

\* lines 171-177: the 200 response
Summary ==
    [status |-> 200,
     message |-> "Notification send process completed",
     total_tokens_processed |-> Len(all_tokens),
     success_count |-> success_count,
     failure_count |-> failure_count,
     invalid_tokens_removed |-> Len(invalid_tokens)]

\* mutant: a failed insert_one is surfaced as a 500
HistoryErrorReply == [status |-> 500, message |-> "Error logging notification to history"]

\* the response when insert_one raised: the exception is logged and swallowed
SummaryAfterHistoryError == Summary

\* lines 155-177: log the broadcast to the history, best effort, and answer
send_notification_history ==
    /\ pc = "history"
    /\ \/ /\ notifications_history_collection' =
                Append(notifications_history_collection, HistoryRecord)
          /\ log' = log \cup {"Notification logged to history."}
          /\ response' = Summary
       \/ /\ log' = log \cup {"Error logging notification to history"}
          /\ response' = SummaryAfterHistoryError
          /\ UNCHANGED notifications_history_collection
    /\ pc' = "done"
    /\ UNCHANGED <<client, tokens_collection, reg, title, body, image, all_tokens,
                   i, invalid_tokens, success_count, failure_count, gateway>>

\* ------------------------------------------------------ specifications
SendNext ==
    \/ send_notification_validate
    \/ send_notification_find
    \/ send_notification_batch
    \/ send_notification_delete
    \/ send_notification_history

RegisterNext ==
    \E r \in Registrars : register_token_update(r) \/ register_token_insert(r)

\* One broadcast, from the request to its response, while a client keeps
\* registering tokens, starting from empty collections.
Next ==
    \/ SendNext
    \/ register_token_update("r1")
    \/ register_token_insert("r1")

Spec == Init /\ [][Next]_vars

\* One broadcast over a collection that already holds tokens.
SpecBatch == InitBatch /\ [][SendNext]_vars

\* As Spec, with a gateway that may drop responses.
NextTruncated ==
    \/ send_notification_validate
    \/ send_notification_find
    \/ send_notification_batch_truncated
    \/ send_notification_delete
    \/ send_notification_history
    \/ register_token_update("r1")
    \/ register_token_insert("r1")

\* Two clients registering concurrently, no broadcast.
SpecRegister == Init /\ [][RegisterNext]_vars

SpecTruncated == Init /\ [][NextTruncated]_vars

\* ------------------------------------------------ what the gateway saw
\* The reasons the specification calls permanently invalid.
PermanentReasons ==
    {"UNREGISTERED", "INVALID_ARGUMENT", "registration-token-not-registered"}

\* The (call, position) pairs of the per-token outcomes the gateway returned.
Entries ==
    UNION {{<<c, k>> : k \in 1..Len(gateway[c].responses)} :
            c \in {d \in 1..Len(gateway) : ~gateway[d].raised}}

EntryToken(ck) == gateway[ck[1]].messages[ck[2]]
EntryOutcome(ck) == gateway[ck[1]].responses[ck[2]]

FailedWith(reasons) ==
    {ck \in Entries : ~EntryOutcome(ck).success /\ EntryOutcome(ck).exception \in reasons}

\* The messages of the calls that raised.
RaisedMessages ==
    UNION {{<<c, k>> : k \in 1..Len(gateway[c].messages)} :
            c \in {d \in 1..Len(gateway) : gateway[d].raised}}

StoredTokens == Range(ListTokens(tokens_collection))

Answered == pc = "done" /\ response.status = 200

\* ----------------------------------------------------------------- C1
\* C1: for every broadcast that reaches the gateway, whatever per-token
\* outcomes and batch-level exceptions occur, the returned success_count +
\* failure_count equals total_tokens_processed (the number of tokens listed),
\* and every record in the history has success_count + failure_count equal to
\* its total_tokens.
C1_CountsAddUp ==
    /\ Answered =>
        /\ response.total_tokens_processed = Len(all_tokens)
        /\ response.success_count + response.failure_count
              = response.total_tokens_processed
    /\ \A k \in 1..Len(notifications_history_collection) :
        LET rec == notifications_history_collection[k]
        IN  rec.success_count + rec.failure_count = rec.total_tokens

\* a broadcast of several batches, one raised, one answered, with successes and
\* failures, answered and logged to the history
C1_Witness ==
    /\ Answered
    /\ Len(notifications_history_collection) = 1
    /\ \E c \in 1..Len(gateway) : gateway[c].raised
    /\ FailedWith({None}) # {}
    /\ response.success_count > 0

\* ----------------------------------------------------------------- C3
C3_Step ==
    (pc = "send" /\ Len(gateway') = Len(gateway) + 1 /\ gateway'[Len(gateway')].raised)
    => /\ Len(gateway'[Len(gateway')].messages) = Min(500, Len(all_tokens) - i)
       /\ failure_count' = failure_count + Len(gateway'[Len(gateway')].messages)
       /\ success_count' = success_count
       /\ invalid_tokens' = invalid_tokens
       /\ (i + 500 < Len(all_tokens)) => pc' = "send"
       /\ response' = response

C3_Final ==
    (pc = "done" /\ gateway # <<>>)
    => /\ response.status = 200
       /\ Cardinality(Entries) + Cardinality(RaisedMessages) = Len(all_tokens)
       /\ response.failure_count
            = Cardinality(RaisedMessages)
              + Cardinality({ck \in Entries : ~EntryOutcome(ck).success})
       /\ Len(invalid_tokens) = Cardinality(FailedWith(PermanentReasons))

\* C3: when the gateway call of one batch raises, every token of that batch
\* is counted as a failure exactly once, none is added to the invalid tokens,
\* the remaining batches are still sent, and the broadcast completes with
\* its normal 200 result.
C3_BatchFailureIsolated == [][C3_Step]_vars /\ []C3_Final

\* the first batch raised, a later one was answered, and the broadcast completed
C3_Witness ==
    /\ Answered
    /\ Len(gateway) >= 2
    /\ gateway[1].raised
    /\ ~gateway[2].raised
    /\ response.success_count > 0

\* ----------------------------------------------------------------- C5
RECURSIVE Flatten(_, _)
Flatten(calls, n) ==
    IF n = 0 THEN <<>> ELSE Flatten(calls, n - 1) \o calls[n].messages

\* C5: a broadcast over N > 0 listed tokens makes exactly ceil(N/500) gateway
\* calls, each of at most 500 messages, and the batches in order hold every
\* listed token exactly once.
C5_Batching ==
    (pc \in {"delete", "history"} \/ Answered)
    => /\ Len(all_tokens) > 0
       /\ Len(gateway) = (Len(all_tokens) + 499) \div 500
       /\ \A c \in 1..Len(gateway) :
            Len(gateway[c].messages) >= 1 /\ Len(gateway[c].messages) <= 500
       /\ Flatten(gateway, Len(gateway)) = all_tokens

\* more than two full batches: three calls
C5_Witness ==
    /\ Answered
    /\ Len(all_tokens) > 1000
    /\ Len(gateway) = 3
    /\ Len(gateway[3].messages) = 1

\* ----------------------------------------------------------------- C2
\* C2 as claimed: once the broadcast has completed, every token the gateway
\* reported UNREGISTERED is absent from the token collection, and
\* invalid_tokens_removed counts it.
C2_AbsentAfterBroadcast ==
    Answered =>
        /\ \A ck \in FailedWith({"UNREGISTERED"}) : EntryToken(ck) \notin StoredTokens
        /\ response.invalid_tokens_removed >= Cardinality(FailedWith({"UNREGISTERED"}))

C2_Counted ==
    /\ (pc \in {"delete", "history"} \/ Answered) =>
          \A ck \in FailedWith({"UNREGISTERED"}) : EntryToken(ck) \in Range(invalid_tokens)
    /\ Answered =>
          response.invalid_tokens_removed = Cardinality(FailedWith(PermanentReasons))

C2_DeleteStep ==
    (pc = "delete" /\ "Removed invalid tokens" \in log')
    => \A ck \in FailedWith({"UNREGISTERED"}) : EntryToken(ck) \notin StoredTokens'

\* C2 (amended): a token the gateway reported UNREGISTERED is among the
\* invalid tokens and is counted in invalid_tokens_removed; when delete_many
\* succeeds, the token is absent from the token collection right after that
\* step.
C2_RemovedWhenDeleteSucceeds == []C2_Counted /\ [][C2_DeleteStep]_vars

\* a completed broadcast that was told UNREGISTERED, deleted, and left the
\* token out of the collection
C2_Witness ==
    /\ Answered
    /\ "Removed invalid tokens" \in log
    /\ FailedWith({"UNREGISTERED"}) # {}
    /\ \A ck \in FailedWith({"UNREGISTERED"}) : EntryToken(ck) \notin StoredTokens
    /\ response.invalid_tokens_removed >= 1

\* ----------------------------------------------------------------- C4
C4_Step ==
    (pc = "find" /\ pc' # "find" /\ tokens_collection = <<>> /\ log' = log)
    => /\ response'.status = 404
       /\ pc' = "done"
       /\ gateway' = <<>>
       /\ notifications_history_collection' = notifications_history_collection
       /\ tokens_collection' = tokens_collection

C4_Final ==
    (pc = "done" /\ response.status = 404)
    => /\ title \notin {None, ""} /\ body \notin {None, ""}
       /\ all_tokens = <<>>
       /\ gateway = <<>>
       /\ notifications_history_collection = <<>>
       /\ log = {}

\* C4: a broadcast with a valid title and body that lists an empty token
\* collection answers 404 (NoRecipients); the gateway is never called, no
\* history record is written and the broadcast leaves the collection as it is.
C4_NoRecipients == [][C4_Step]_vars /\ []C4_Final

C4_Witness ==
    /\ pc = "done"
    /\ response.status = 404
    /\ title = "Pop" /\ body = "Hello"

\* ----------------------------------------------------------------- C6
PermanentlyInvalidTokens == {EntryToken(ck) : ck \in FailedWith(PermanentReasons)}

C6_Counted ==
    (pc \in {"delete", "history"} \/ Answered) =>
        /\ Range(invalid_tokens) = PermanentlyInvalidTokens
        /\ Len(invalid_tokens) = Cardinality(FailedWith(PermanentReasons))
        /\ failure_count = Cardinality(RaisedMessages)
                           + Cardinality({ck \in Entries : ~EntryOutcome(ck).success})

C6_Frame ==
    \A t \in StoredTokens \ StoredTokens' : t \in PermanentlyInvalidTokens

\* C6: the broadcast removes from the token collection only tokens that had
\* an outcome failed with UNREGISTERED, INVALID_ARGUMENT or
\* registration-token-not-registered; an outcome failed with another reason
\* (INTERNAL_ERROR, or none) is counted in failure_count, is not counted in
\* invalid_tokens_removed and does not remove its token.
C6_OnlyInvalidRemoved == []C6_Counted /\ [][C6_Frame]_vars

\* one token removed as invalid while a token that failed with INTERNAL_ERROR
\* is still stored
C6_Witness ==
    /\ Answered
    /\ "Removed invalid tokens" \in log
    /\ response.invalid_tokens_removed = 1
    /\ response.failure_count = 2
    /\ \E ck \in FailedWith({"INTERNAL_ERROR"}) :
          EntryToken(ck) \in StoredTokens /\ EntryToken(ck) \notin Range(invalid_tokens)

\* ----------------------------------------------------------------- C7
\* C7: whether or not insert_one into the history raises, the response is the
\* 200 summary of the counts the handler holds, and the step leaves the token
\* collection (the removal already done) as it is.
C7_HistoryFailureInvisible ==
    [][(pc = "history" /\ pc' = "done")
        => /\ response' = [status |-> 200,
                           message |-> "Notification send process completed",
                           total_tokens_processed |-> Len(all_tokens),
                           success_count |-> success_count,
                           failure_count |-> failure_count,
                           invalid_tokens_removed |-> Len(invalid_tokens)]
           /\ tokens_collection' = tokens_collection]_vars

\* the append failed after a removal, and the broadcast answered 200
C7_Witness ==
    /\ Answered
    /\ "Error logging notification to history" \in log
    /\ notifications_history_collection = <<>>
    /\ "Removed invalid tokens" \in log
    /\ response.invalid_tokens_removed >= 1

\* ----------------------------------------------------------------- C8
C8_NoAccess ==
    /\ all_tokens = <<>>
    /\ gateway = <<>>
    /\ notifications_history_collection = <<>>
    /\ log = {}

\* C8 as claimed: a request whose title or body is missing or empty is
\* answered 400, with no token listed, no gateway call and no history record.
C8_InvalidRequest ==
    (pc = "done" /\ (title \in {None, ""} \/ body \in {None, ""}))
    => response.status = 400 /\ C8_NoAccess

\* C8 (amended): with the database client connected, a request whose title or
\* body is missing or empty is answered 400; with no client it is answered 500
\* "Database not connected" before title and body are looked at.  Either way no
\* token is listed, the gateway is not called and no history record is written,
\* and no later step of the handler runs.
C8_InvalidRequestWhenConnected ==
    /\ (pc = "done" /\ (title \in {None, ""} \/ body \in {None, ""}))
       => /\ response = (IF client
                         THEN [status |-> 400, message |-> "Title and body are required"]
                         ELSE [status |-> 500, message |-> "Database not connected"])
          /\ C8_NoAccess
    /\ (pc \notin {"idle", "done"}) => (title \notin {None, ""} /\ body \notin {None, ""})

\* an empty title refused while tokens are registered
C8_Witness ==
    /\ pc = "done"
    /\ client
    /\ title = "" /\ body = "Hello"
    /\ response.status = 400
    /\ tokens_collection # <<>>

\* ----------------------------------------------------------------- C9
\* C9: registration is an idempotent upsert: whatever registrations run, and
\* however they interleave, the token collection never holds two documents
\* with the same token, and a token whose registration was answered 200 is
\* listed exactly once by get_tokens.
C9_IdempotentUpsert ==
    /\ \A j, k \in 1..Len(tokens_collection) :
          j # k => tokens_collection[j].token # tokens_collection[k].token
    /\ \A r \in Registrars :
          (reg[r].pc = "idle" /\ reg[r].status = 200)
          => Cardinality({k \in 1..get_tokens.count :
                              get_tokens.tokens[k] = reg[r].token}) = 1

\* ---------------------------------------------------------------- C10
\* C10: when send_all answers with fewer responses than the batch has tokens,
\* every token of the batch left without a response is counted in
\* failure_count, and is not put among the invalid tokens.
C10_MissingOutcomeIsFailure ==
    Answered =>
        /\ response.failure_count
             = Cardinality(RaisedMessages)
               + Cardinality({ck \in Entries : ~EntryOutcome(ck).success})
               + (Len(all_tokens) - Cardinality(Entries) - Cardinality(RaisedMessages))
        /\ Len(invalid_tokens) = Cardinality(FailedWith(PermanentReasons))

====
